---- MODULE Spec2Model ----
(***************************************************************************)
(* Model of the carry-forward transformation of obsidian-carry-forward     *)
(* (src/main.ts): copyForwardLines, validateRegex, genID, blockIDRegex,    *)
(* the twelve editor commands and the settings handlers that feed them.    *)
(*                                                                         *)
(* A string is a sequence of one-character strings; the placeholder        *)
(* "{{LINK}}" of the two templates is kept as a single element.  Line and  *)
(* column numbers are 0-based as in the editor API; sequences are 1-based. *)
(***************************************************************************)
EXTENDS Integers, Sequences, FiniteSets, TLC

\* ------------------------------------------------------------------------
\* Characters
\* ------------------------------------------------------------------------

\* The characters \s matches (the ones that occur in the model).
WhiteSpace == {" ", "\t", "\n", "\r"}

IsSpace(c) == c \in WhiteSpace

\* [a-zA-Z0-9-] of blockIDRegex.
BlockIDChars ==
    {"a","b","c","d","e","f","g","h","i","j","k","l","m","n","o","p","q","r","s",
     "t","u","v","w","x","y","z",
     "A","B","C","D","E","F","G","H","I","J","K","L","M","N","O","P","Q","R","S",
     "T","U","V","W","X","Y","Z",
     "0","1","2","3","4","5","6","7","8","9","-"}

\* The alphabet genID draws from.
characters ==
    {"a","b","c","d","e","f","g","h","i","j","k","l","m","n","o","p","q","r","s",
     "t","u","v","w","x","y","z","-",
     "0","1","2","3","4","5","6","7","8","9"}

\* genID's default length.
IDLength == 5

SetMin(S) == CHOOSE x \in S : \A y \in S : x <= y

SetMax(S) == CHOOSE x \in S : \A y \in S : x >= y

\* ------------------------------------------------------------------------
\* String primitives (String.prototype.slice, the fixed regular expressions)
\* ------------------------------------------------------------------------

\* A relative index of slice(): negative counts from the end, then clamped.
ClampIndex(n, len) ==
    IF n < 0 THEN (IF len + n < 0 THEN 0 ELSE len + n)
    ELSE (IF n > len THEN len ELSE n)

\* s.slice(start, end)
slice(s, start, end) ==
    LET a == ClampIndex(start, Len(s))
        b == ClampIndex(end, Len(s))
    IN  IF a < b THEN SubSeq(s, a + 1, b) ELSE <<>>

\* The number of whitespace characters s starts with.
LeadingSpaces(s) ==
    LET solid == {i \in 1..Len(s) : ~IsSpace(s[i])}
    IN  IF solid = {} THEN Len(s) ELSE SetMin(solid) - 1

\* copiedLine.replace(/^\s*/, "")
StripLeading(s) == SubSeq(s, LeadingSpaces(s) + 1, Len(s))

\* The number of characters before the trailing run of whitespace of s.
SolidLength(s) ==
    LET solid == {i \in 1..Len(s) : ~IsSpace(s[i])}
    IN  IF solid = {} THEN 0 ELSE SetMax(solid)

\* line.match(/^\s*$/)
IsBlank(s) == \A i \in 1..Len(s) : IsSpace(s[i])

\* A faulty replace: rep is appended and the trailing whitespace is kept.
ReplaceTrailingSpaceKeeping(s, rep) == s \o rep

\* line.replace(/\s*?$/, rep): the leftmost match is the whole trailing
\* run of whitespace (the lazy quantifier grows until $ holds).
ReplaceTrailingSpace(s, rep) == SubSeq(s, 1, SolidLength(s)) \o rep

\* The start positions (1-based, of the "^") where blockIDRegex matches:
\* /(?<=[\s^])\^[a-zA-Z0-9-]+$/u.  The lookbehind class [\s^] holds the
\* whitespace characters and the character "^" itself.
BlockIDStarts(s) ==
    {i \in 2..(Len(s) - 1) :
        /\ s[i] = "^"
        /\ (IsSpace(s[i - 1]) \/ s[i - 1] = "^")
        /\ \A j \in (i + 1)..Len(s) : s[j] \in BlockIDChars}

\* line.match(blockIDRegex) === null
NoBlockID(s) == BlockIDStarts(s) = {}

\* The text of the (leftmost) match of blockIDRegex in s.
BlockIDOf(s) == SubSeq(s, SetMin(BlockIDStarts(s)), Len(s))

\* s.replace(blockIDRegex, "")
RemoveBlockID(s) ==
    IF NoBlockID(s) THEN s ELSE SubSeq(s, 1, SetMin(BlockIDStarts(s)) - 1)

\* ------------------------------------------------------------------------
\* The user's "From" pattern: validateRegex and new RegExp(..., "u")
\* ------------------------------------------------------------------------

\* s.replace(/\\<letter>/g, ch): every backslash followed by letter becomes ch.
RECURSIVE Unescape(_, _, _)
Unescape(s, letter, ch) ==
    IF Len(s) < 2 THEN s
    ELSE IF s[1] = "\\" /\ s[2] = letter
         THEN <<ch>> \o Unescape(SubSeq(s, 3, Len(s)), letter, ch)
         ELSE <<s[1]>> \o Unescape(Tail(s), letter, ch)

\* The characters a unicode-mode pattern may escape as themselves.
SyntaxCharacters ==
    {"^", "$", "\\", ".", "*", "+", "?", "(", ")", "[", "]", "{", "}", "|", "/"}

NoItems == [ok |-> FALSE, items |-> <<>>]

\* new RegExp(p, "u") for patterns built from literals, \s, control escapes,
\* "*", "$" and (unquantified) groups: the compiled items, or ok = FALSE
\* where the constructor throws a SyntaxError.
RECURSIVE ParseItems(_, _, _, _)
ParseItems(p, i, depth, acc) ==
    IF i > Len(p) THEN [ok |-> depth = 0, items |-> acc]
    ELSE IF p[i] = "\\" THEN
        IF i = Len(p) THEN NoItems
        ELSE IF p[i + 1] = "s"
             THEN ParseItems(p, i + 2, depth,
                      Append(acc, [kind |-> "space", ch |-> "", star |-> FALSE]))
        ELSE IF p[i + 1] \in {"n", "t", "r"}
             THEN ParseItems(p, i + 2, depth,
                      Append(acc, [kind |-> "char",
                                   ch |-> IF p[i + 1] = "n" THEN "\n"
                                          ELSE IF p[i + 1] = "t" THEN "\t" ELSE "\r",
                                   star |-> FALSE]))
        ELSE IF p[i + 1] \in SyntaxCharacters
             THEN ParseItems(p, i + 2, depth,
                      Append(acc, [kind |-> "char", ch |-> p[i + 1], star |-> FALSE]))
        ELSE NoItems
    ELSE IF p[i] = "$"
         THEN ParseItems(p, i + 1, depth,
                  Append(acc, [kind |-> "eol", ch |-> "", star |-> FALSE]))
    ELSE IF p[i] = "*"
         THEN IF acc = <<>> \/ acc[Len(acc)].star
                 \/ acc[Len(acc)].kind \in {"eol", "group"}
              THEN NoItems
              ELSE ParseItems(p, i + 1, depth,
                       [acc EXCEPT ![Len(acc)].star = TRUE])
    ELSE IF p[i] = "("
         THEN ParseItems(p, i + 1, depth + 1,
                  Append(acc, [kind |-> "group", ch |-> "", star |-> FALSE]))
    ELSE IF p[i] = ")"
         THEN IF depth = 0 THEN NoItems
              ELSE ParseItems(p, i + 1, depth - 1,
                       Append(acc, [kind |-> "group", ch |-> "", star |-> FALSE]))
    ELSE ParseItems(p, i + 1, depth,
             Append(acc, [kind |-> "char", ch |-> p[i], star |-> FALSE]))

RegExp(p) == ParseItems(p, 1, 0, <<>>)

\* A faulty validateRegex: the pattern is compiled as it is saved, without
\* the replacements of its "\n", "\t" and "\r".
validateRegexRaw(regexString) == RegExp(regexString).ok

\* validateRegex(regexString).valid === true
validateRegex(regexString) ==
    RegExp(Unescape(Unescape(Unescape(regexString, "n", "\n"), "t", "\t"),
                    "r", "\r")).ok

Accepts(item, c) ==
    IF item.kind = "space" THEN IsSpace(c) ELSE item.kind = "char" /\ item.ch = c

\* Where a match of items[k..] that starts after pos characters of s ends
\* (greedy, backtracking), or -1 when there is none.
RECURSIVE MatchEnd(_, _, _, _)
MatchEnd(items, k, s, pos) ==
    IF k > Len(items) THEN pos
    ELSE IF items[k].kind = "group" THEN MatchEnd(items, k + 1, s, pos)
    ELSE IF items[k].kind = "eol"
         THEN IF pos = Len(s) THEN MatchEnd(items, k + 1, s, pos) ELSE -1
    ELSE IF ~items[k].star
         THEN IF pos < Len(s) /\ Accepts(items[k], s[pos + 1])
              THEN MatchEnd(items, k + 1, s, pos + 1)
              ELSE -1
    ELSE LET run == {n \in 0..(Len(s) - pos) :
                        \A j \in 1..n : Accepts(items[k], s[pos + j])}
             fit == {n \in run : MatchEnd(items, k + 1, s, pos + n) # -1}
         IN  IF fit = {} THEN -1
             ELSE MatchEnd(items, k + 1, s, pos + SetMax(fit))

\* s.replace(new RegExp(p, "u"), rep): the first (leftmost) match replaced.
RegexReplace(s, p, rep) ==
    LET items == RegExp(p).items
        starts == {b \in 0..Len(s) : MatchEnd(items, 1, s, b) # -1}
    IN  IF starts = {} THEN s
        ELSE LET b == SetMin(starts)
                 e == MatchEnd(items, 1, s, b)
             IN  SubSeq(s, 1, b) \o rep \o SubSeq(s, e + 1, Len(s))

\* template.replace("{{LINK}}", link): the first placeholder replaced.
ReplaceLink(template, link) ==
    LET at == {i \in 1..Len(template) : template[i] = "{{LINK}}"}
    IN  IF at = {} THEN template
        ELSE SubSeq(template, 1, SetMin(at) - 1) \o link
                 \o SubSeq(template, SetMin(at) + 1, Len(template))

\* view.app.fileManager.generateMarkdownLink(file, "/", subpath, alias):
\* the host's wikilink to the note, with the alias when there is one.
generateMarkdownLink(subpath, alias) ==
    <<"[", "[", "N">> \o subpath
        \o (IF alias = <<>> THEN <<>> ELSE <<"|">> \o alias) \o <<"]", "]">>

\* lines.join("\n")
RECURSIVE Join(_)
Join(lines) ==
    IF lines = <<>> THEN <<>>
    ELSE IF Len(lines) = 1 THEN lines[1]
    ELSE lines[1] \o <<"\n">> \o Join(Tail(lines))

\* The lines of a text, as the editor splits what a transaction inserts.
RECURSIVE Split(_)
Split(text) ==
    LET nl == {i \in 1..Len(text) : text[i] = "\n"}
    IN  IF nl = {} THEN <<text>>
        ELSE <<SubSeq(text, 1, SetMin(nl) - 1)>>
                 \o Split(SubSeq(text, SetMin(nl) + 1, Len(text)))

\* ------------------------------------------------------------------------
\* State
\* ------------------------------------------------------------------------

VARIABLES
    doc,        \* the editor's lines
    selection,  \* the editor's selection: [from, to], each [line, ch]
    settings,   \* the plugin's settings object
    clipboard,  \* the text on the system clipboard
    calls,      \* the invocations of copyForwardLines, by slot
    notices     \* how many Notices of each kind were shown

vars == <<doc, selection, settings, clipboard, calls, notices>>

CopyTypes == {"SeparateLines", "CombinedLines", "LinkOnly", "LinkOnlyEmbed"}

Mode == {"LinkTextFromSettings", "LinkTextFromSelection", "LinkTextFromClipboard"}

DEFAULT_SETTINGS ==
    [linkText |-> <<>>,
     copiedLinkText |-> <<"(", "s", "e", "e", " ", "{{LINK}}", ")">>,
     lineFormatFrom |-> <<"\\", "s", "*", "$">>,
     lineFormatTo |-> <<" ", "(", "s", "e", "e", " ", "{{LINK}}", ")">>,
     removeLeadingWhitespace |-> TRUE]

\* The slots an invocation of a command can run in.
CallIds == {1, 2}

\* A slot no command has run in yet.  pc: "idle", "read" (suspended at
\* await navigator.clipboard.readText()), "done" (the returned promise is
\* fulfilled), "failed" (it is rejected).  log keeps, per line visited, what
\* the loop read and computed; write is the state of the promise of
\* navigator.clipboard.writeText, text what was handed to it.
IdleCall ==
    [pc |-> "idle", copy |-> "SeparateLines", mode |-> "LinkTextFromSettings",
     valid |-> TRUE,
     cursorFrom |-> [line |-> 0, ch |-> 0], cursorTo |-> [line |-> 0, ch |-> 0],
     lineNumber |-> 0, line |-> <<>>, copiedLine |-> <<>>,
     updatedLines |-> <<>>, copiedLines |-> <<>>, newID |-> <<>>,
     log |-> <<>>, reads |-> 0, transactions |-> 0,
     write |-> "none", text |-> <<>>]

\* editor.getSelection()
getSelection(d, sel) ==
    IF sel.from.line = sel.to.line
    THEN slice(d[sel.from.line + 1], sel.from.ch, sel.to.ch)
    ELSE Join(<<slice(d[sel.from.line + 1], sel.from.ch, Len(d[sel.from.line + 1]))>>
              \o SubSeq(d, sel.from.line + 2, sel.to.line)
              \o <<slice(d[sel.to.line + 1], 0, sel.to.ch)>>)

\* ------------------------------------------------------------------------
\* copyForwardLines: the body of the loop
\* ------------------------------------------------------------------------

\* Lines 84-93: copiedLine before the column slice.
StrippedLine(c, st, line) ==
    IF /\ st.removeLeadingWhitespace = TRUE
       /\ c.lineNumber = c.cursorFrom.line
       /\ c.cursorFrom.ch = c.cursorTo.ch
    THEN StripLeading(line)
    ELSE line

\* A faulty column slice: it cuts copiedLine, which may have lost its leading
\* whitespace, instead of line.
SlicedLineOfCopied(c, line, copiedLine) ==
    LET minLine == c.cursorFrom.line
        maxLine == c.cursorTo.line
    IN  IF /\ (c.lineNumber = minLine \/ c.lineNumber = maxLine)
           /\ ~(minLine = maxLine /\ c.cursorFrom.ch = c.cursorTo.ch)
        THEN slice(copiedLine,
                   IF c.lineNumber = minLine THEN c.cursorFrom.ch ELSE 0,
                   IF c.lineNumber = maxLine THEN c.cursorTo.ch ELSE Len(line) - 1)
        ELSE copiedLine

\* Lines 95-103: the column slice of the first and the last selected line.
SlicedLine(c, line, copiedLine) ==
    LET minLine == c.cursorFrom.line
        maxLine == c.cursorTo.line
    IN  IF /\ (c.lineNumber = minLine \/ c.lineNumber = maxLine)
           /\ ~(minLine = maxLine /\ c.cursorFrom.ch = c.cursorTo.ch)
        THEN slice(line,
                   IF c.lineNumber = minLine THEN c.cursorFrom.ch ELSE 0,
                   IF c.lineNumber = maxLine THEN c.cursorTo.ch ELSE Len(line) - 1)
        ELSE copiedLine

\* A faulty shortcut: it spares the first selected line of every selection.
BlankShortcutNotFirst(c, line) ==
    /\ IsBlank(line)
    /\ c.lineNumber # c.cursorFrom.line

\* Lines 105-108: the line is passed through as it is.
BlankShortcut(c, line) ==
    /\ IsBlank(line)
    /\ ~(c.lineNumber = c.cursorFrom.line /\ c.cursorFrom.line = c.cursorTo.line)

\* Line 123: the line gets a block ID and a link.
IsLinkUnit(c) == c.copy = "SeparateLines" \/ c.lineNumber = c.cursorFrom.line

\* Lines 174-179: the line's copiedLine goes to copiedLines.
CopiesLine(c) ==
    ~(c.copy \in {"LinkOnly", "LinkOnlyEmbed"} /\ c.lineNumber # c.cursorFrom.line)

\* Lines 137-148 and 157-170: copiedLine of a link unit.
ComposeCopied(c, st, copiedLine, link) ==
    IF c.copy \in {"LinkOnly", "LinkOnlyEmbed"}
    THEN IF c.copy = "LinkOnlyEmbed" THEN <<"!">> \o link
         ELSE ReplaceLink(st.copiedLinkText, link)
    ELSE RegexReplace(copiedLine, st.lineFormatFrom,
                      ReplaceLink(st.lineFormatTo, link))

\* Lines 83-112 for the line at c.lineNumber: read it, compute copiedLine.
ReadLine(c, d, st) ==
    LET line == d[c.lineNumber + 1]
    IN  [c EXCEPT !.line = line,
                  !.copiedLine = SlicedLine(c, line, StrippedLine(c, st, line))]

\* Lines 109-111: the blank-line shortcut.
PassThrough(c) ==
    [c EXCEPT !.copiedLines = Append(@, c.copiedLine),
              !.updatedLines = Append(@, c.line),
              !.log = Append(@, [line |-> c.line, sliced |-> c.copiedLine,
                                 shortcut |-> TRUE, unit |-> FALSE,
                                 hadID |-> FALSE, newID |-> <<>>,
                                 updated |-> c.line, copied |-> c.copiedLine]),
              !.lineNumber = @ + 1]

\* A faulty suffix: the block ID without the space before it.
AnchorSuffixBare(blockID) == blockID

\* Line 136: what replaces the trailing whitespace, ` ${newID}`.
AnchorSuffix(blockID) == <<" ">> \o blockID

\* Lines 123-183 for the line at c.lineNumber, with the link text of lines
\* 114-121 and id the value genID() returns if it is called.
LinkLine(c, st, linkText, id) ==
    LET unit == IsLinkUnit(c)
        hadID == ~NoBlockID(c.line)
        fresh == unit /\ ~hadID
        blockID == IF hadID THEN BlockIDOf(c.line) ELSE <<"^">> \o id
        link == generateMarkdownLink(<<"#">> \o blockID, linkText)
        line == IF fresh THEN ReplaceTrailingSpace(c.line, AnchorSuffix(blockID))
                ELSE c.line
        copiedLine ==
            IF ~unit THEN c.copiedLine
            ELSE ComposeCopied(c, st,
                     IF hadID THEN RemoveBlockID(c.copiedLine) ELSE c.copiedLine,
                     link)
        throws == /\ unit
                  /\ c.copy \in {"SeparateLines", "CombinedLines"}
                  /\ ~RegExp(st.lineFormatFrom).ok
    IN  IF throws THEN [c EXCEPT !.pc = "failed"]
        ELSE [c EXCEPT !.newID = IF fresh THEN blockID ELSE @,
                       !.line = line,
                       !.copiedLine = copiedLine,
                       !.copiedLines = IF CopiesLine(c) THEN Append(@, copiedLine) ELSE @,
                       !.updatedLines = Append(@, line),
                       !.log = Append(@, [line |-> c.line, sliced |-> c.copiedLine,
                                          shortcut |-> FALSE, unit |-> unit,
                                          hadID |-> hadID,
                                          newID |-> IF fresh THEN blockID ELSE <<>>,
                                          updated |-> line, copied |-> copiedLine]),
                       !.lineNumber = @ + 1]

\* The loop of lines 82-183 from c.lineNumber on, up to the next await
\* (pc = "read"), an exception (pc = "failed") or its exit (pc = "loopend").
\* ids[k] is what genID() returns for the k-th selected line.
RECURSIVE RunLoop(_, _, _, _, _)
RunLoop(c, d, sel, st, ids) ==
    IF c.pc = "failed" THEN c
    ELSE IF c.lineNumber > c.cursorTo.line THEN [c EXCEPT !.pc = "loopend"]
    ELSE LET r == ReadLine(c, d, st)
         IN  IF BlankShortcut(r, r.line) THEN RunLoop(PassThrough(r), d, sel, st, ids)
             ELSE IF c.mode = "LinkTextFromClipboard"
                  THEN [r EXCEPT !.pc = "read", !.reads = @ + 1]
             ELSE RunLoop(LinkLine(r, st,
                              IF c.mode = "LinkTextFromSelection"
                              THEN getSelection(d, sel) ELSE st.linkText,
                              ids[c.lineNumber - c.cursorFrom.line + 1]),
                          d, sel, st, ids)

\* ------------------------------------------------------------------------
\* Actions
\* ------------------------------------------------------------------------

\* editor.transaction({changes: [{from: (minLine, 0), to: (maxLine, end of
\* line), text}], selection}): the lines minLine..maxLine replaced by text.
EditorTransaction(d, minLine, maxLine, text) ==
    SubSeq(d, 1, minLine) \o Split(text) \o SubSeq(d, maxLine + 2, Len(d))

\* Where the synchronous run of the function body has brought call i: to the
\* end of the loop (lines 185-196 follow at once: the clipboard write is
\* started and not awaited, the transaction is applied, the promise is
\* fulfilled), to the await of line 120, or to an exception.
Proceed(i, c) ==
    IF c.pc = "loopend"
    THEN /\ calls' = [calls EXCEPT ![i] =
                        [c EXCEPT !.pc = "done",
                                  !.write = "pending",
                                  !.text = Join(c.copiedLines),
                                  !.transactions = @ + 1]]
         /\ doc' = EditorTransaction(doc, c.cursorFrom.line, c.cursorTo.line,
                                     Join(c.updatedLines))
         /\ selection' = [from |-> c.cursorFrom, to |-> c.cursorTo]
    ELSE /\ calls' = [calls EXCEPT ![i] = c]
         /\ UNCHANGED <<doc, selection>>

\* The identifiers genID() returns in the model: IDLength draws of the same
\* character, for two of the characters.
GenIDs == {[k \in 1..IDLength |-> ch] : ch \in {"a", "7"}}

\* One of the twelve editorCallbacks: copyForwardLines(editor, view,
\* settings, copy, mode) from its first line to its first await or its end.
editorCallback(i, copy, mode) ==
    /\ calls[i].pc = "idle"
    /\ IF ~validateRegex(settings.lineFormatFrom)
       THEN /\ notices' = [notices EXCEPT !.invalid = @ + 1]
            /\ calls' = [calls EXCEPT ![i] =
                           [IdleCall EXCEPT !.pc = "done", !.valid = FALSE,
                                            !.copy = copy, !.mode = mode]]
            /\ UNCHANGED <<doc, selection, settings, clipboard>>
       ELSE /\ \E ids \in [1..(IF copy = "SeparateLines"
                               THEN selection.to.line - selection.from.line + 1
                               ELSE 1) -> GenIDs] :
                 Proceed(i, RunLoop([IdleCall EXCEPT
                                        !.pc = "run", !.copy = copy, !.mode = mode,
                                        !.cursorFrom = selection.from,
                                        !.cursorTo = selection.to,
                                        !.lineNumber = selection.from.line],
                                    doc, selection, settings, ids))
            /\ UNCHANGED <<settings, clipboard, notices>>

\* The promise of navigator.clipboard.readText() is fulfilled: call i goes on
\* from line 120 to its next await or its end.
ClipboardReadResolve(i) ==
    /\ calls[i].pc = "read"
    /\ \E id \in GenIDs :
         Proceed(i, RunLoop(LinkLine([calls[i] EXCEPT !.pc = "run"],
                                     settings, clipboard, id),
                            doc, selection, settings, <<>>))
    /\ UNCHANGED <<settings, clipboard, notices>>

\* The promise of navigator.clipboard.readText() is rejected: the await
\* throws and the promise of copyForwardLines is rejected.
ClipboardReadReject(i) ==
    /\ calls[i].pc = "read"
    /\ calls' = [calls EXCEPT ![i].pc = "failed"]
    /\ UNCHANGED <<doc, selection, settings, clipboard, notices>>

\* The promise of navigator.clipboard.writeText(text) is fulfilled: the text
\* is on the clipboard and the .then callback shows "Copied".
ClipboardWriteResolve(i) ==
    /\ calls[i].write = "pending"
    /\ clipboard' = calls[i].text
    /\ calls' = [calls EXCEPT ![i].write = "fulfilled"]
    /\ notices' = [notices EXCEPT !.copied = @ + 1]
    /\ UNCHANGED <<doc, selection, settings>>

\* The promise of navigator.clipboard.writeText(text) is rejected: nothing
\* handles the rejection.
ClipboardWriteReject(i) ==
    /\ calls[i].write = "pending"
    /\ calls' = [calls EXCEPT ![i].write = "rejected"]
    /\ UNCHANGED <<doc, selection, settings, clipboard, notices>>

\* ------------------------------------------------------------------------
\* Initial states
\* ------------------------------------------------------------------------

\* The most lines, and the most characters over all its lines, of an initial
\* document (a block ID counts as one character).
MaxLines == 3

MaxChars == 2

\* The most lines of an initial document where two commands run.
MaxLinesTwice == 2

\* The characters of the initial lines' text.
TextChars == {" ", "x"}

\* A block ID written by an earlier command or by the user.
OldBlockID == <<"^", "k">>

\* The lines of a given size: a text, or (with ids) a text followed by a
\* block ID.
LinesOfSize(n, ids) ==
    [1..n -> TextChars]
        \cup (IF ids /\ n > 0 THEN {t \o OldBlockID : t \in [1..(n - 1) -> TextChars]}
              ELSE {})

\* The documents of at most k lines and at most n characters.
RECURSIVE DocsUpTo(_, _, _)
DocsUpTo(k, n, ids) ==
    IF k = 0 THEN {<<>>}
    ELSE {<<>>} \cup UNION {{<<l>> \o d : l \in LinesOfSize(m, ids),
                                          d \in DocsUpTo(k - 1, n - m, ids)} :
                            m \in 0..n}

Docs(k, ids) == DocsUpTo(k, MaxChars, ids) \ {<<>>}

Positions(d) ==
    UNION {{[line |-> l, ch |-> ch] : ch \in 0..Len(d[l + 1])} : l \in 0..(Len(d) - 1)}

\* The selections of a document, normalised as getCursor("from") and
\* getCursor("to") give them.
Selections(d) ==
    {sel \in [from : Positions(d), to : Positions(d)] :
        \/ sel.from.line < sel.to.line
        \/ sel.from.line = sel.to.line /\ sel.from.ch <= sel.to.ch}

\* The "From" patterns loadSettings finds saved: the default, an unbalanced
\* parenthesis, and a pattern that compiles only before validateRegex
\* replaces its "\n".
FromPatterns ==
    {DEFAULT_SETTINGS.lineFormatFrom, <<"(">>, <<"\\", "\\", "n">>}

\* Object.assign({}, DEFAULT_SETTINGS, await this.loadData()): a saved
\* pattern, or a saved removeLeadingWhitespace, over the defaults.
LoadedSettings ==
    {[DEFAULT_SETTINGS EXCEPT !.lineFormatFrom = p] : p \in FromPatterns}
        \cup {[DEFAULT_SETTINGS EXCEPT !.removeLeadingWhitespace = b] : b \in BOOLEAN}

InitWith(docs, loaded) ==
    /\ doc \in docs
    /\ selection \in Selections(doc)
    /\ settings \in loaded
    /\ clipboard = <<"c">>
    /\ calls = [i \in CallIds |-> IdleCall]
    /\ notices = [invalid |-> 0, copied |-> 0]

\* ------------------------------------------------------------------------
\* One command on a document
\* ------------------------------------------------------------------------

Init == InitWith(Docs(MaxLines, TRUE), LoadedSettings)

Next ==
    \/ \E copy \in CopyTypes, mode \in Mode : editorCallback(1, copy, mode)
    \/ ClipboardReadResolve(1)
    \/ ClipboardReadReject(1)
    \/ ClipboardWriteResolve(1)
    \/ ClipboardWriteReject(1)

Spec == Init /\ [][Next]_vars

\* ------------------------------------------------------------------------
\* The same command twice in a row; two commands that overlap
\* ------------------------------------------------------------------------

\* A document without block IDs, the default settings, and one of the
\* "Copy selection with each line linked" commands run twice, the second
\* after the first has returned.
InitTwice == InitWith(Docs(MaxLinesTwice, FALSE), {DEFAULT_SETTINGS})

NextTwice ==
    \/ \E mode \in Mode : editorCallback(1, "SeparateLines", mode)
    \/ \E mode \in Mode :
           calls[1].pc = "done" /\ editorCallback(2, "SeparateLines", mode)
    \/ \E i \in CallIds : ClipboardReadResolve(i)
    \/ \E i \in CallIds : ClipboardReadReject(i)
    \/ \E i \in CallIds : ClipboardWriteResolve(i)
    \/ \E i \in CallIds : ClipboardWriteReject(i)

SpecTwice == InitTwice /\ [][NextTwice]_vars

\* A one-line document and two "link text from clipboard" commands; the
\* second may start while the first is suspended at its clipboard read.
InitOverlap == InitWith(Docs(1, FALSE), {DEFAULT_SETTINGS})

NextOverlap ==
    \/ \E copy \in CopyTypes : editorCallback(1, copy, "LinkTextFromClipboard")
    \/ \E copy \in CopyTypes :
           calls[1].pc # "idle" /\ editorCallback(2, copy, "LinkTextFromClipboard")
    \/ \E i \in CallIds : ClipboardReadResolve(i)
    \/ \E i \in CallIds : ClipboardReadReject(i)
    \/ \E i \in CallIds : ClipboardWriteResolve(i)
    \/ \E i \in CallIds : ClipboardWriteReject(i)

SpecOverlap == InitOverlap /\ [][NextOverlap]_vars

\* ------------------------------------------------------------------------
\* Properties
\* ------------------------------------------------------------------------

Collapsed(c) == c.cursorFrom = c.cursorTo

SingleLine(c) == c.cursorFrom.line = c.cursorTo.line

\* s is t followed by a space, "^" and IDLength characters of genID's alphabet.
EndsWithNewID(s, t) ==
    /\ Len(s) = Len(t) + 2 + IDLength
    /\ SubSeq(s, 1, Len(t)) = t
    /\ s[Len(t) + 1] = " "
    /\ s[Len(t) + 2] = "^"
    /\ \A j \in (Len(t) + 3)..Len(s) : s[j] \in characters

\* The saved patterns that do not pass validation.
BadFrom == settings.lineFormatFrom \in {<<"(">>, <<"\\", "\\", "n">>}

\* C1: with a "From" pattern that fails validation no step of any command,
\* whatever its copy mode and link-text mode, changes the document, the
\* selection or the clipboard; no call reads the clipboard, starts a
\* clipboard write or issues a transaction; every call returns at once, and
\* the only notices shown are the warnings, one per command.
C1_InvalidFromAborts ==
    [][BadFrom =>
          /\ doc' = doc
          /\ selection' = selection
          /\ clipboard' = clipboard
          /\ notices'.copied = 0
          /\ notices'.invalid = Cardinality({i \in CallIds : calls'[i].pc # "idle"})
          /\ \A i \in CallIds :
                /\ calls'[i].pc \in {"idle", "done"}
                /\ calls'[i].reads = 0
                /\ calls'[i].write = "none"
                /\ calls'[i].transactions = 0]_vars

C1_Witness ==
    /\ settings.lineFormatFrom = <<"(">>
    /\ calls[1].pc = "done"
    /\ ~calls[1].valid
    /\ calls[1].copy = "LinkOnlyEmbed"
    /\ calls[1].mode = "LinkTextFromClipboard"
    /\ notices = [invalid |-> 1, copied |-> 0]

\* The final token of s is an anchor token: "^" and one or more letters,
\* digits or hyphens at the end of s, the "^" after whitespace or first in s.
HasAnchorToken(s) ==
    \E i \in 1..(Len(s) - 1) :
        /\ s[i] = "^"
        /\ (i = 1 \/ IsSpace(s[i - 1]))
        /\ \A j \in (i + 1)..Len(s) : s[j] \in BlockIDChars

AnchorTokenOf(s) ==
    SubSeq(s, CHOOSE i \in 1..(Len(s) - 1) :
                  /\ s[i] = "^"
                  /\ (i = 1 \/ IsSpace(s[i - 1]))
                  /\ \A j \in (i + 1)..Len(s) : s[j] \in BlockIDChars,
           Len(s))

\* C2: a line that ends in an anchor token (after whitespace or at the start
\* of the line) and is treated as a link unit keeps its text, gets no new
\* anchor, and its link is built from that token.
C2_AnchorPermanence ==
    \A i \in CallIds : \A k \in DOMAIN calls[i].log :
        LET e == calls[i].log[k]
        IN  (e.unit /\ HasAnchorToken(e.line)) =>
                /\ e.updated = e.line
                /\ e.newID = <<>>
                /\ e.hadID
                /\ BlockIDOf(e.line) = AnchorTokenOf(e.line)

\* C3: SeparateLines twice in a row on the same selection of lines without
\* block IDs: the second run finds, on every line, the block ID the first run
\* appended, generates none, and its rewritten lines are the lines the first
\* run left in the document.
C3_SeparateLinesIdempotent ==
    LET c1 == calls[1]
        c2 == calls[2]
    IN  (/\ c1.pc = "done" /\ c2.pc = "done"
         /\ c1.copy = "SeparateLines" /\ c2.copy = "SeparateLines"
         /\ c1.cursorFrom = c2.cursorFrom /\ c1.cursorTo = c2.cursorTo
         /\ \A k \in DOMAIN c1.log : NoBlockID(c1.log[k].line)) =>
            /\ Len(c2.log) = Len(c1.log)
            /\ c2.newID = <<>>
            /\ c2.updatedLines = c1.updatedLines
            /\ SubSeq(doc, c2.cursorFrom.line + 1, c2.cursorTo.line + 1) = c1.updatedLines
            /\ \A k \in DOMAIN c2.log :
                  /\ c2.log[k].newID = <<>>
                  /\ c2.log[k].line = c1.log[k].updated
                  /\ c1.log[k].newID # <<>> =>
                        /\ c2.log[k].hadID
                        /\ BlockIDOf(c2.log[k].line) = c1.log[k].newID

C3_Witness ==
    /\ calls[1].pc = "done" /\ calls[2].pc = "done"
    /\ calls[2].mode = "LinkTextFromClipboard"
    /\ Len(calls[1].log) = 2
    /\ calls[1].log[1].newID # <<>>
    /\ calls[1].log[2].newID # <<>>
    /\ calls[1].log[1].newID # calls[1].log[2].newID
    /\ calls[2].updatedLines = calls[1].updatedLines

\* C4: in LinkOnly and LinkOnlyEmbed the copied-output collection of a call
\* that reached its end holds exactly one entry, so the text handed to the
\* clipboard is a single line.
C4_LinkOnlyOneEntry ==
    \A i \in CallIds :
        (/\ calls[i].pc = "done" /\ calls[i].valid
         /\ calls[i].copy \in {"LinkOnly", "LinkOnlyEmbed"}) =>
            /\ Len(calls[i].copiedLines) = 1
            /\ \A j \in DOMAIN calls[i].text : calls[i].text[j] # "\n"

\* What the blank-line shortcut leaves of entry k of call c: the rewritten
\* line is the line read, no block ID is generated, no link is built.
Untouched(c, k) ==
    /\ c.updatedLines[k] = c.log[k].line
    /\ c.log[k].newID = <<>>
    /\ ~c.log[k].unit
    /\ c.log[k].copied = c.log[k].sliced

\* C5: every blank selected line is left untouched unless the
\* selection is a single-line collapsed caret.
C5_BlankUnlessCaret ==
    \A i \in CallIds : \A k \in DOMAIN calls[i].log :
        (IsBlank(calls[i].log[k].line) /\ ~(SingleLine(calls[i]) /\ Collapsed(calls[i])))
            => Untouched(calls[i], k)

\* C5, with the exception the code makes: every blank selected line is left
\* untouched unless the selection lies within a single line (collapsed or not).
C5_BlankUnlessSingleLine ==
    \A i \in CallIds : \A k \in DOMAIN calls[i].log :
        (IsBlank(calls[i].log[k].line) /\ ~SingleLine(calls[i]))
            => Untouched(calls[i], k)

C5_Witness ==
    /\ calls[1].pc = "done"
    /\ calls[1].copy = "SeparateLines"
    /\ Len(calls[1].log) = 3
    /\ ~IsBlank(calls[1].log[1].line)
    /\ calls[1].log[2].line = <<>>
    /\ ~IsBlank(calls[1].log[3].line)
    /\ doc[calls[1].cursorFrom.line + 2] = <<>>
    /\ calls[1].log[1].newID # <<>>
    /\ calls[1].log[3].newID # <<>>

\* C6: in a selection that is not collapsed, the copied text before the link
\* substitution is the selected part of the line: from the start column on
\* the first line, to the end column on the last line, whole otherwise.
C6_ColumnSlice ==
    \A i \in CallIds : \A k \in DOMAIN calls[i].log :
        LET c == calls[i]
            e == c.log[k]
            first == k = 1
            last == k = c.cursorTo.line - c.cursorFrom.line + 1
        IN  ~Collapsed(c) =>
                e.sliced = SubSeq(e.line,
                                  IF first THEN c.cursorFrom.ch + 1 ELSE 1,
                                  IF last THEN c.cursorTo.ch ELSE Len(e.line))

\* C7: for a first selected line with text on it: under a collapsed caret the
\* copied text (before the link substitution) is the line without its leading
\* whitespace if removeLeadingWhitespace is on and the whole line if it is
\* off, and with the setting on and the default pattern the text that is
\* copied starts without whitespace; under any other selection it is cut
\* from the line as it was read, starting at the start column, whatever the
\* setting; the rewritten line keeps the leading whitespace and, having had no
\* block ID, ends in a new one.
C7_StripOrSlice ==
    \A i \in CallIds :
        LET c == calls[i]
        IN  (Len(c.log) >= 1 /\ ~IsBlank(c.log[1].line)) =>
                LET e == c.log[1]
                    ws == LeadingSpaces(e.line)
                IN  /\ Collapsed(c) =>
                          e.sliced = IF settings.removeLeadingWhitespace
                                     THEN SubSeq(e.line, ws + 1, Len(e.line))
                                     ELSE e.line
                    /\ ~Collapsed(c) =>
                          /\ c.cursorFrom.ch + Len(e.sliced) <= Len(e.line)
                          /\ e.sliced = SubSeq(e.line, c.cursorFrom.ch + 1,
                                               c.cursorFrom.ch + Len(e.sliced))
                    /\ (/\ Collapsed(c) /\ settings.removeLeadingWhitespace
                        /\ c.copy \in {"SeparateLines", "CombinedLines"}
                        /\ settings.lineFormatFrom = DEFAULT_SETTINGS.lineFormatFrom) =>
                          LeadingSpaces(e.copied) = 0
                    /\ LeadingSpaces(e.updated) = ws
                    /\ SubSeq(e.updated, 1, ws) = SubSeq(e.line, 1, ws)
                    /\ NoBlockID(e.line) =>
                          /\ EndsWithNewID(e.updated, SubSeq(e.line, 1, SolidLength(e.line)))
                          /\ ~NoBlockID(e.updated)
                    /\ ~NoBlockID(e.line) => e.updated = e.line

\* A selection of two lines with equal start and end columns, the setting on:
\* the first line is cut from the line as read and keeps its leading space.
C7_Witness ==
    /\ calls[1].pc = "done"
    /\ settings.removeLeadingWhitespace
    /\ calls[1].copy = "CombinedLines"
    /\ calls[1].cursorFrom.line < calls[1].cursorTo.line
    /\ calls[1].cursorFrom.ch = calls[1].cursorTo.ch
    /\ calls[1].log[1].line = <<" ", "x">>
    /\ calls[1].log[1].sliced = <<" ">>
    /\ EndsWithNewID(doc[calls[1].cursorFrom.line + 1], <<" ", "x">>)

\* C8, what a call holds: at most one transaction; at its end one rewritten
\* line per selected line; a rewritten line differs from the line read only on
\* a link unit without block ID, and then by a space and a new block ID in
\* the place of the trailing whitespace.
C8_Rewritten ==
    \A i \in CallIds :
        LET c == calls[i]
        IN  /\ c.transactions <= 1
            /\ c.transactions = 1 =>
                  Len(c.updatedLines) = c.cursorTo.line - c.cursorFrom.line + 1
            /\ Len(c.updatedLines) = Len(c.log)
            /\ \A k \in DOMAIN c.updatedLines :
                  c.updatedLines[k] # c.log[k].line =>
                      /\ c.copy = "SeparateLines" \/ k = 1
                      /\ NoBlockID(c.log[k].line)
                      /\ EndsWithNewID(c.updatedLines[k],
                             SubSeq(c.log[k].line, 1, SolidLength(c.log[k].line)))

\* C8, what a step does: the document changes only in the transaction of a
\* call, which puts the call's rewritten lines in the place of the selected
\* lines (the lines the call read) and leaves the other lines, the number of
\* lines and the selection as they were.
C8_Step ==
    /\ doc' # doc => \E i \in CallIds : calls'[i].transactions # calls[i].transactions
    /\ selection' = selection
    /\ \A i \in CallIds :
          calls'[i].transactions # calls[i].transactions =>
              LET c == calls'[i]
              IN  /\ selection = [from |-> c.cursorFrom, to |-> c.cursorTo]
                  /\ Len(doc') = Len(doc)
                  /\ \A n \in 1..Len(doc) :
                        IF n - 1 \in c.cursorFrom.line..c.cursorTo.line
                        THEN /\ doc[n] = c.log[n - c.cursorFrom.line].line
                             /\ doc'[n] = c.updatedLines[n - c.cursorFrom.line]
                        ELSE doc'[n] = doc[n]

C9_WriteAwaited ==
    \A i \in CallIds :
        calls[i].valid =>
            /\ (calls[i].pc = "done" \/ calls[i].transactions > 0) =>
                   calls[i].write = "fulfilled"
            /\ calls[i].write = "rejected" => calls[i].pc = "failed"

\* C10: when both commands have returned, every block ID a command wrote at
\* the end of a line is still the block ID at the end of that line.
C10_OverlapKeepsAnchor ==
    (calls[1].pc = "done" /\ calls[2].pc = "done") =>
        \A i \in CallIds : \A k \in DOMAIN calls[i].log :
            calls[i].log[k].newID # <<>> =>
                LET line == doc[calls[i].cursorFrom.line + k]
                IN  /\ ~NoBlockID(line)
                    /\ BlockIDOf(line) = calls[i].log[k].newID

====
